---- MODULE Spec2Model ----
(***************************************************************************)
(* Screenshot index: the description store, the three ingestion paths      *)
(* (index_screenshots, process_single_image, the /upload handler) and the  *)
(* relevance ranker's reply parser (search_screenshots).                   *)
(*                                                                         *)
(* Text is modelled as a sequence of symbols.  A symbol is one character   *)
(* (":", ".", " ", a digit, a newline) or a fragment of a name that holds  *)
(* no separator, digit or blank ("screenshots", "a.png", "score").         *)
(***************************************************************************)
EXTENDS Integers, Sequences, FiniteSets, TLC

\* ------------------------------------------------------------------ bounds
MaxFiles == 2      \* files in one upload request
MaxLines == 3      \* lines in one reply of the ranking model
MaxK     == 2      \* |top_k| passed to search_screenshots

\* --------------------------------------------------------------- constants
\* File names are the ones secure_filename leaves as they are; Names have a
\* supported extension, BadName has not.
UPLOAD_FOLDER == "screenshots"
MissingFolder == "nowhere"
Names   == {"a.png", "b.png"}
BadName == "notes.txt"
Procs   == {"t1", "t2"}

\* the description a store found at start holds for a path
OldDesc(path) == IF path[3] = "a.png" THEN "old a" ELSE "old b"
NewDesc == "new"                 \* a description the vision model returns
DescribeOutcomes == {"", NewDesc}

NoPath == <<>>

\* os.path.join(folder, filename) / str(folder / name)
Join(folder, filename) == <<folder, "/", filename>>

Paths == {Join(UPLOAD_FOLDER, n) : n \in Names}

VARIABLES disk,          \* the descriptions file (one JSON document)
          screenshots,   \* names of the files present in UPLOAD_FOLDER
          frames,        \* per thread / process: the running operation
          last,          \* the operation that returned last
          out            \* what the last search returned

vars == <<disk, screenshots, frames, last, out>>

\* ------------------------------------------------------- description store
EmptyMap == [k \in {} |-> ""]

Put(m, k, v) == [x \in DOMAIN m \cup {k} |-> IF x = k THEN v ELSE m[x]]

Absent  == [kind |-> "absent",  map |-> EmptyMap]
Corrupt == [kind |-> "corrupt", map |-> EmptyMap]

\* json.dump(descriptions, f): the whole document is replaced
save_descriptions(descriptions) == [kind |-> "json", map |-> descriptions]

\* os.path.exists / json.load, {} on a missing or unparsable document
load_descriptions(doc) == IF doc.kind = "json" THEN doc.map ELSE EmptyMap

\* ------------------------------------------------------------- predicates
\* mutant: an empty description counts as a description
TruthyAlways(description) == TRUE

\* `if description:`
Truthy(description) == description # ""

\* mutant: the already-processed check never fires
AlreadyProcessedNever(filename, descriptions) == FALSE

\* `if filename in descriptions:` (index_screenshots, process_single_image)
AlreadyProcessed(filename, descriptions) == filename \in DOMAIN descriptions

allowed_file(filename) == filename \in Names

file_exists_in_screenshots(filename) == filename \in screenshots

\* open(image_path, "rb") succeeds: the path names a file among `present`
PathExists(path, present) == /\ path \in Paths
                             /\ path[3] \in present

\* get_image_description: the model's text, or "" when the file cannot be read
\* or the call fails (every exception is caught and turned into "")
get_image_description(path, present) ==
    IF PathExists(path, present) THEN DescribeOutcomes ELSE {""}

FolderExists(folder) == folder = UPLOAD_FOLDER

\* folder.glob over the supported extensions, on a case-sensitive file
\* system: each image file of the folder once, in no particular order
Glob(folder) == IF FolderExists(folder)
                THEN {Join(folder, n) : n \in screenshots}
                ELSE {}

\* ------------------------------------------------------------------ frames
DescribeEv(path, description) == [ev |-> "describe", id |-> path, res |-> description]
SaveEv == [ev |-> "save", id |-> NoPath, res |-> ""]

Result(filename, status) == [filename |-> filename, status |-> status]

IdleFrame == [op |-> "none", pc |-> "idle", descriptions |-> EmptyMap,
              loaded |-> EmptyMap, image_files |-> {}, cands |-> {},
              files |-> <<>>, request |-> <<>>, results |-> <<>>, log |-> <<>>,
              ret |-> "none"]

NoLast == [op |-> "none", cands |-> {}, disk |-> Absent, log |-> <<>>]

Requests == UNION {[1..n -> Names \cup {BadName}] : n \in 0..MaxFiles}

\* ------------------------------------------------------------------- text
NL == "\n"
Whitespace == {" ", NL, "\t"}
DigitSeq == <<"0", "1", "2", "3", "4", "5", "6", "7", "8", "9">>
Digits == {DigitSeq[i] : i \in 1..10}

\* str.isdigit on one character
IsDigit(c) == c \in Digits

Range(s) == {s[i] : i \in 1..Len(s)}

\* str.strip()
RECURSIVE LStrip(_)
LStrip(t) == IF t # <<>> /\ Head(t) \in Whitespace THEN LStrip(Tail(t)) ELSE t

RECURSIVE RStrip(_)
RStrip(t) == IF t # <<>> /\ t[Len(t)] \in Whitespace
             THEN RStrip(SubSeq(t, 1, Len(t) - 1)) ELSE t

Strip(t) == RStrip(LStrip(t))

\* str.split(sep): every piece between two occurrences of sep
RECURSIVE SplitOn(_, _)
SplitOn(t, sep) ==
    IF sep \notin Range(t) THEN <<t>>
    ELSE LET i == CHOOSE i \in 1..Len(t) : t[i] = sep /\ \A j \in 1..(i - 1) : t[j] # sep
         IN  <<SubSeq(t, 1, i - 1)>> \o SplitOn(SubSeq(t, i + 1, Len(t)), sep)

\* int(s) for a non-empty string of digits
RECURSIVE int(_)
int(ds) == IF ds = <<>> THEN 0
           ELSE LET d == CHOOSE i \in 1..10 : DigitSeq[i] = ds[Len(ds)]
                IN  10 * int(SubSeq(ds, 1, Len(ds) - 1)) + (d - 1)

\* filename_part.split('. ', 1)[-1] if '. ' in filename_part else filename_part
RemoveNumbering(filename_part) ==
    LET at == {i \in 1..(Len(filename_part) - 1) :
                  filename_part[i] = "." /\ filename_part[i + 1] = " "}
    IN  IF at = {} THEN filename_part
        ELSE LET i == CHOOSE i \in at : \A j \in at : i <= j
             IN  SubSeq(filename_part, i + 2, Len(filename_part))

\* ----------------------------------- search_screenshots.py: search_screenshots
\* mutant: the identifier of a line is not checked against the store
KnownFileAlways(filename, descriptions) == TRUE

\* `if filename in descriptions:` (line 87)
KnownFile(filename, descriptions) == filename \in DOMAIN descriptions

Skip(kind) == [kind |-> kind, triple |-> <<>>]

\* lines 73-90: what one line of the reply gives: a triple ("ok"), nothing
\* ("skip"), or the exception the extraction raises
ParseLine(line, descriptions) ==
    IF ~(":" \in Range(line) /\ \E i \in 1..Len(line) : IsDigit(line[i]))
    THEN Skip("skip")
    ELSE LET parts == SplitOn(line, ":") IN
         IF ~(Len(parts) >= 2) THEN Skip("skip")
         ELSE LET filename_part == Strip(parts[1])
                  score_part == Strip(parts[2])
                  filename == RemoveNumbering(filename_part)
                  digits == SelectSeq(score_part, IsDigit)
              IN  IF digits = <<>> THEN Skip("ValueError")
                  ELSE IF ~KnownFile(filename, descriptions) THEN Skip("skip")
                  ELSE IF filename \notin DOMAIN descriptions THEN Skip("KeyError")
                  ELSE [kind |-> "ok",
                        triple |-> <<filename, descriptions[filename], int(digits)>>]

\* `except (ValueError, IndexError): continue`
CaughtPerLine == {"ValueError", "IndexError"}

\* mutant: each result is put in front of the earlier ones
RECURSIVE CollectPrepend(_, _, _)
CollectPrepend(lines, descriptions, results) ==
    IF lines = <<>> THEN [raised |-> FALSE, results |-> results]
    ELSE LET o == ParseLine(Head(lines), descriptions) IN
         IF o.kind = "ok"
         THEN CollectPrepend(Tail(lines), descriptions, <<o.triple>> \o results)
         ELSE IF o.kind = "skip" \/ o.kind \in CaughtPerLine
         THEN CollectPrepend(Tail(lines), descriptions, results)
         ELSE [raised |-> TRUE, results |-> results]

\* lines 67-90: the loop over the lines; any other exception leaves the loop
RECURSIVE Collect(_, _, _)
Collect(lines, descriptions, results) ==
    IF lines = <<>> THEN [raised |-> FALSE, results |-> results]
    ELSE LET o == ParseLine(Head(lines), descriptions) IN
         IF o.kind = "ok"
         THEN Collect(Tail(lines), descriptions, Append(results, o.triple))
         ELSE IF o.kind = "skip" \/ o.kind \in CaughtPerLine
         THEN Collect(Tail(lines), descriptions, results)
         ELSE [raised |-> TRUE, results |-> results]

\* results[:top_k]
Slice(results, top_k) ==
    IF top_k >= 0
    THEN SubSeq(results, 1, IF top_k < Len(results) THEN top_k ELSE Len(results))
    ELSE SubSeq(results, 1, Len(results) + top_k)

\* the model's answer: the call raised, the content is None, or it is text
Failed == [kind |-> "error", text |-> <<>>]
NoContent == [kind |-> "none", text |-> <<>>]
Content(text) == [kind |-> "text", text |-> text]

\* lines 36-96; `except Exception: return []` around the call and the parse
search_screenshots(descriptions, response, top_k) ==
    IF descriptions = EmptyMap THEN <<>>
    ELSE IF response.kind # "text" THEN <<>>
    ELSE LET lines == SplitOn(Strip(response.text), NL)
             r == Collect(lines, descriptions, <<>>)
         IN  IF r.raised THEN <<>> ELSE Slice(r.results, top_k)

NoOut == [called |-> FALSE, descriptions |-> EmptyMap, lines |-> <<>>,
          response |-> Failed, top_k |-> 0, results |-> <<>>]

\* the lines a reply is made of
KeyA == Join(UPLOAD_FOLDER, "a.png")
KeyB == Join(UPLOAD_FOLDER, "b.png")
ReplyLines ==
    { <<"1", ".", " ">> \o KeyA \o <<":", " ", "8", "7">>,
      <<"2", ".", " ">> \o KeyB \o <<":", " ", "5">>,
      KeyB \o <<":", "4", "0", "%">>,
      <<"Here", " ", "are", " ", "the", " ", "top", " ", "matches", ":">>,
      <<"2", ".", " ", "unknown", ":", " ", "not-a-number">>,
      <<"ghost.png", ":", " ", "9", "0">>,
      <<"1", ".", " ">> \o KeyA \o <<":", " ", "score", ":", " ", "8", "7">>,
      <<"1", ".", " ">> \o KeyA \o <<":", " ", "8", ":", "7">>,
      <<" ", "3", ".", " ">> \o KeyA \o <<" ", ":", " ", "1", "5", "0", " ">>,
      <<>> }

RECURSIVE JoinLines(_)
JoinLines(ls) == IF ls = <<>> THEN <<>>
                 ELSE IF Len(ls) = 1 THEN ls[1]
                 ELSE ls[1] \o <<NL>> \o JoinLines(Tail(ls))

Replies == UNION {[1..n -> ReplyLines] : n \in 0..MaxLines}

\* search_screenshots.py main(), lines 119-127: load, stop on an empty store,
\* search with --top; `out` holds the reply the model will give and --top
search_main ==
    LET descriptions == load_descriptions(disk)
    IN  /\ ~out.called
        /\ descriptions # EmptyMap
        /\ out' = [out EXCEPT !.called = TRUE, !.descriptions = descriptions,
                              !.results = search_screenshots(descriptions,
                                                             out.response, out.top_k)]
        /\ UNCHANGED <<disk, screenshots, frames, last>>

Set(p, f) == frames' = [frames EXCEPT ![p] = f]

\* ------------------------------------------------- app.py: upload_files
\* lines 44-52: the request is validated, then the store is loaded
upload_files_begin(p, req) ==
    /\ frames[p].pc = "idle"
    /\ IF req = <<>>
       THEN Set(p, [IdleFrame EXCEPT !.op = "upload", !.pc = "done", !.ret = "400"])
       ELSE LET descriptions == load_descriptions(disk) IN
            Set(p, [IdleFrame EXCEPT !.op = "upload", !.pc = "check",
                                     !.descriptions = descriptions,
                                     !.loaded = descriptions,
                                     !.files = req, !.request = req])
    /\ UNCHANGED <<disk, screenshots, last, out>>

\* where the loop goes once the current file is dealt with
AfterFile(rest) == IF rest = <<>> THEN "save" ELSE "check"

\* lines 55-65, 87-92: the type check and the already-exists check
upload_files_check(p) ==
    LET fr == frames[p]
        filename == Head(fr.files)
        rest == Tail(fr.files)
    IN  /\ fr.op = "upload" /\ fr.pc = "check"
        /\ IF ~allowed_file(filename)
           THEN Set(p, [fr EXCEPT !.results = Append(@, Result(filename, "error")),
                                  !.files = rest, !.pc = AfterFile(rest)])
           ELSE IF file_exists_in_screenshots(filename)
           THEN Set(p, [fr EXCEPT !.results = Append(@, Result(filename, "skipped")),
                                  !.files = rest, !.pc = AfterFile(rest)])
           ELSE Set(p, [fr EXCEPT !.pc = "process"])
        /\ UNCHANGED <<disk, screenshots, last, out>>

\* lines 67-86: file.save, get_image_description, the in-memory update
upload_files_process(p, description) ==
    LET fr == frames[p]
        filename == Head(fr.files)
        rest == Tail(fr.files)
        filepath == Join(UPLOAD_FOLDER, filename)
    IN  /\ fr.op = "upload" /\ fr.pc = "process"
        /\ screenshots' = screenshots \cup {filename}
        /\ description \in get_image_description(filepath, screenshots')
        /\ IF Truthy(description)
           THEN Set(p, [fr EXCEPT !.descriptions = Put(@, filepath, description),
                                  !.results = Append(@, Result(filename, "success")),
                                  !.log = Append(@, DescribeEv(filepath, description)),
                                  !.files = rest, !.pc = AfterFile(rest)])
           ELSE Set(p, [fr EXCEPT !.results = Append(@, Result(filename, "error")),
                                  !.log = Append(@, DescribeEv(filepath, description)),
                                  !.files = rest, !.pc = AfterFile(rest)])
        /\ UNCHANGED <<disk, last, out>>

\* lines 94-100: save_descriptions, then the response
upload_files_save(p) ==
    LET fr == frames[p]
    IN  /\ fr.op = "upload" /\ fr.pc = "save"
        /\ disk' = save_descriptions(fr.descriptions)
        /\ Set(p, [fr EXCEPT !.log = Append(@, SaveEv), !.pc = "done", !.ret = "200"])
        /\ UNCHANGED <<screenshots, last, out>>

\* ------------------------------------ index_screenshots.py: index_screenshots
\* lines 78-95: the folder check, the load, the glob, the empty check
index_screenshots_begin(p, folder) ==
    /\ frames[p].pc = "idle"
    /\ IF ~FolderExists(folder)
       THEN Set(p, [IdleFrame EXCEPT !.op = "index", !.pc = "done",
                                     !.ret = "no folder"])
       ELSE LET descriptions == load_descriptions(disk)
                image_files == Glob(folder)
            IN  Set(p, [IdleFrame EXCEPT !.op = "index",
                                         !.pc = IF image_files = {} THEN "done" ELSE "loop",
                                         !.descriptions = descriptions,
                                         !.loaded = descriptions,
                                         !.image_files = image_files,
                                         !.cands = image_files])
    /\ UNCHANGED <<disk, screenshots, last, out>>

\* where the loop goes once the current candidate is dealt with
AfterCandidate(rest) == IF rest = {} THEN "save" ELSE "loop"

\* lines 98-114: one pass of the loop, in whatever order glob gave
index_screenshots_step(p, image_path, description) ==
    LET fr == frames[p]
        rest == fr.image_files \ {image_path}
    IN  /\ fr.op = "index" /\ fr.pc = "loop"
        /\ image_path \in fr.image_files
        /\ IF AlreadyProcessed(image_path, fr.descriptions)
           THEN /\ description = ""
                /\ Set(p, [fr EXCEPT !.image_files = rest, !.pc = AfterCandidate(rest)])
           ELSE /\ description \in get_image_description(image_path, screenshots)
                /\ IF Truthy(description)
                   THEN Set(p, [fr EXCEPT !.descriptions = Put(@, image_path, description),
                                          !.log = Append(@, DescribeEv(image_path, description)),
                                          !.image_files = rest, !.pc = AfterCandidate(rest)])
                   ELSE Set(p, [fr EXCEPT !.log = Append(@, DescribeEv(image_path, description)),
                                          !.image_files = rest, !.pc = AfterCandidate(rest)])
        /\ UNCHANGED <<disk, screenshots, last, out>>

\* lines 116-118
index_screenshots_save(p) ==
    LET fr == frames[p]
    IN  /\ fr.op = "index" /\ fr.pc = "save"
        /\ disk' = save_descriptions(fr.descriptions)
        /\ Set(p, [fr EXCEPT !.log = Append(@, SaveEv), !.pc = "done"])
        /\ UNCHANGED <<screenshots, last, out>>

\* --------------------------------- index_screenshots.py: process_single_image
\* lines 122-125
process_single_image_begin(p, image_path) ==
    LET descriptions == load_descriptions(disk)
    IN  /\ frames[p].pc = "idle"
        /\ IF AlreadyProcessed(image_path, descriptions)
           THEN Set(p, [IdleFrame EXCEPT !.op = "single", !.pc = "done", !.ret = "True",
                                         !.descriptions = descriptions,
                                         !.loaded = descriptions,
                                         !.cands = {image_path}])
           ELSE Set(p, [IdleFrame EXCEPT !.op = "single", !.pc = "describe",
                                         !.descriptions = descriptions,
                                         !.loaded = descriptions,
                                         !.cands = {image_path}])
        /\ UNCHANGED <<disk, screenshots, last, out>>

\* mutant: the store is saved whether or not a description came back
process_single_image_describe_saving(p, description) ==
    LET fr == frames[p]
        image_path == CHOOSE x \in fr.cands : TRUE
        descriptions == IF Truthy(description)
                        THEN Put(fr.descriptions, image_path, description)
                        ELSE fr.descriptions
    IN  /\ fr.op = "single" /\ fr.pc = "describe"
        /\ description \in get_image_description(image_path, screenshots)
        /\ disk' = save_descriptions(descriptions)
        /\ Set(p, [fr EXCEPT !.descriptions = descriptions,
                              !.log = <<DescribeEv(image_path, description), SaveEv>>,
                              !.pc = "done",
                              !.ret = IF Truthy(description) THEN "True" ELSE "False"])
        /\ UNCHANGED <<screenshots, last, out>>

\* lines 127-132
process_single_image_describe(p, description) ==
    LET fr == frames[p]
        image_path == CHOOSE x \in fr.cands : TRUE
    IN  /\ fr.op = "single" /\ fr.pc = "describe"
        /\ description \in get_image_description(image_path, screenshots)
        /\ IF Truthy(description)
           THEN LET descriptions == Put(fr.descriptions, image_path, description) IN
                /\ disk' = save_descriptions(descriptions)
                /\ Set(p, [fr EXCEPT !.descriptions = descriptions,
                                      !.log = <<DescribeEv(image_path, description), SaveEv>>,
                                      !.pc = "done", !.ret = "True"])
           ELSE /\ disk' = disk
                /\ Set(p, [fr EXCEPT !.log = <<DescribeEv(image_path, description)>>,
                                      !.pc = "done", !.ret = "False"])
        /\ UNCHANGED <<screenshots, last, out>>

\* ------------------------------------------------------------------ return
\* the operation returns to its caller; what it did is remembered in `last`
Return(p) ==
    LET fr == frames[p]
    IN  /\ fr.pc = "done"
        /\ last' = [op |-> fr.op, cands |-> fr.cands, disk |-> disk, log |-> fr.log]
        /\ Set(p, IdleFrame)
        /\ UNCHANGED <<disk, screenshots, out>>

\* ------------------------------------------------------------ specification
\* The descriptions file and the upload folder are what earlier runs and the
\* user left: the file may be missing, unparsable, or hold entries (with
\* non-empty descriptions) for files that are or are no longer in the
\* folder; the folder may hold files that were never indexed.
InitialMaps == {[path \in S |-> OldDesc(path)] : S \in SUBSET Paths}

InitialDocs == {Absent, Corrupt} \cup {save_descriptions(m) : m \in InitialMaps}

Init ==
    /\ disk \in InitialDocs
    /\ screenshots \in SUBSET Names
    /\ frames = [p \in Procs |-> IdleFrame]
    /\ last = NoLast
    /\ out = NoOut

\* one operation at a time: the command-line tools, and a server that
\* handles one request after the other
NoneRunning == \A q \in Procs : frames[q].pc = "idle"

Step(p) ==
    \/ upload_files_check(p)
    \/ \E description \in DescribeOutcomes : upload_files_process(p, description)
    \/ upload_files_save(p)
    \/ \E image_path \in Paths, description \in DescribeOutcomes :
           index_screenshots_step(p, image_path, description)
    \/ index_screenshots_save(p)
    \/ \E description \in DescribeOutcomes : process_single_image_describe(p, description)
    \/ Return(p)

Next ==
    \E p \in Procs :
        \/ NoneRunning /\ \E req \in Requests : upload_files_begin(p, req)
        \/ NoneRunning /\ \E folder \in {UPLOAD_FOLDER, MissingFolder} :
                              index_screenshots_begin(p, folder)
        \/ NoneRunning /\ \E image_path \in Paths : process_single_image_begin(p, image_path)
        \/ Step(p)

Spec == Init /\ [][Next]_vars

\* the threaded server: requests to /upload overlap
UploadStep(p) ==
    \/ \E req \in Requests : upload_files_begin(p, req)
    \/ upload_files_check(p)
    \/ \E description \in DescribeOutcomes : upload_files_process(p, description)
    \/ upload_files_save(p)
    \/ Return(p)

NextConc == \E p \in Procs : UploadStep(p)

\* a freshly installed server: no descriptions file, an empty upload folder
InitConc ==
    /\ disk = Absent
    /\ screenshots = {}
    /\ frames = [p \in Procs |-> IdleFrame]
    /\ last = NoLast
    /\ out = NoOut

SpecConc == InitConc /\ [][NextConc]_vars

\* the search tool over a store left by earlier ingestion, for every reply
\* of the ranking model and every --top
SearchInputs ==
    {[NoOut EXCEPT !.lines = ls, !.response = Content(JoinLines(ls)), !.top_k = top] :
        ls \in Replies, top \in (-MaxK)..MaxK}
    \cup {[NoOut EXCEPT !.response = r, !.top_k = top] :
        r \in {Failed, NoContent}, top \in (-MaxK)..MaxK}

InitSearch ==
    /\ disk \in InitialDocs
    /\ screenshots = {}
    /\ frames = [p \in Procs |-> IdleFrame]
    /\ last = NoLast
    /\ out \in SearchInputs

NextSearch == search_main

SpecSearch == InitSearch /\ [][NextSearch]_vars

\* ================================================================== claims
\* what a run's log holds
Describes(log) == {i \in 1..Len(log) : log[i].ev = "describe"}
Saves(log) == {i \in 1..Len(log) : log[i].ev = "save"}
DescribedIds(log) == {log[i].id : i \in Describes(log)}
FailedIds(log) == {log[i].id : i \in {j \in Describes(log) : log[j].res = ""}}
StoreOnDisk == load_descriptions(disk)

\* a batch run that has finished, straight after a batch run over the same
\* candidates, started from the store that run left
SecondRun(p) ==
    /\ frames[p].op = "index" /\ frames[p].pc = "done"
    /\ last.op = "index" /\ last.cands = frames[p].cands
    /\ frames[p].loaded = load_descriptions(last.disk)

\* C1 as stated: the second of two batch runs over the same candidates makes
\* no describe call and leaves the persisted store as the first run left it,
\* whatever the describe calls of the first run returned.
C1_SecondRunDoesNothing ==
    \A p \in Procs : SecondRun(p) =>
        /\ Describes(frames[p].log) = {}
        /\ disk = last.disk

\* C1 amended: the second run calls describe only for the candidates the
\* first run left without an entry (those whose describe call came back
\* empty), and for each of them; if those calls come back empty again the
\* persisted store is unchanged.  So with no failure in the first run the
\* second makes no call and no change.
C1_SecondRunRetriesOnlyFailures ==
    \A p \in Procs : SecondRun(p) =>
        /\ DescribedIds(frames[p].log) = last.cands \ DOMAIN load_descriptions(last.disk)
        /\ DescribedIds(frames[p].log) = FailedIds(last.log)
        /\ (\A i \in Describes(frames[p].log) : frames[p].log[i].res = "")
              => disk = last.disk
        /\ FailedIds(last.log) = {}
              => (Describes(frames[p].log) = {} /\ disk = last.disk)

C1_Witness ==
    \E p \in Procs :
        /\ SecondRun(p)
        /\ Cardinality(frames[p].cands) = 2
        /\ FailedIds(last.log) # {}
        /\ \E i \in Describes(last.log) : last.log[i].res # ""
        /\ Describes(frames[p].log) # {}

\* C2 as stated: in every ingestion path, an identifier that is a key of the
\* store loaded at the start of the operation is never described, and its
\* description in memory and in the store saved is the one that was loaded.
C2_DedupPrecedence ==
    \A p \in Procs : \A X \in DOMAIN frames[p].loaded :
        /\ X \notin DescribedIds(frames[p].log)
        /\ X \in DOMAIN frames[p].descriptions
        /\ frames[p].descriptions[X] = frames[p].loaded[X]
        /\ (frames[p].pc = "done" /\ Saves(frames[p].log) # {})
              => (X \in DOMAIN StoreOnDisk /\ StoreOnDisk[X] = frames[p].loaded[X])

\* C3: every key of the store, in memory and on disk, has a non-empty
\* description; an entry is created or changed only by a describe call that
\* returned a non-empty text; and after a failed call the remaining
\* candidates are still dealt with.
C3_NonEmptyDescriptions ==
    /\ \A k \in DOMAIN StoreOnDisk : StoreOnDisk[k] # ""
    /\ \A p \in Procs :
        LET fr == frames[p] IN
        /\ \A k \in DOMAIN fr.descriptions : fr.descriptions[k] # ""
        /\ DOMAIN fr.loaded \subseteq DOMAIN fr.descriptions
        /\ \A k \in DOMAIN fr.descriptions :
              (k \notin DOMAIN fr.loaded \/ fr.descriptions[k] # fr.loaded[k])
                 => \E i \in Describes(fr.log) :
                       /\ fr.log[i].id = k
                       /\ fr.log[i].res # ""
                       /\ fr.log[i].res = fr.descriptions[k]
        /\ (fr.op = "index" /\ fr.pc = "done" /\ fr.ret # "no folder")
              => \A c \in fr.cands :
                    c \in DOMAIN fr.descriptions \/ c \in DescribedIds(fr.log)
        /\ (fr.op = "upload" /\ fr.pc = "done" /\ fr.ret = "200")
              => Len(fr.results) = Len(fr.request)

C3_Witness ==
    \E p \in Procs :
        LET fr == frames[p] IN
        /\ fr.op = "index" /\ fr.pc = "done"
        /\ fr.loaded = EmptyMap
        /\ \E i, j \in Describes(fr.log) :
              i < j /\ fr.log[i].res = "" /\ fr.log[j].res # ""
        /\ FailedIds(fr.log) \cap DOMAIN StoreOnDisk = {}

\* an ingestion run that got as far as loading the store
Ran(fr) == fr.op \in {"index", "single", "upload"} /\ fr.ret \notin {"400", "no folder"}

\* C8 as stated: every finished ingestion run has saved the store exactly
\* once, as the last thing it did.
C8_SavesExactlyOnce ==
    \A p \in Procs : (frames[p].pc = "done" /\ Ran(frames[p])) =>
        /\ Cardinality(Saves(frames[p].log)) = 1
        /\ frames[p].log[Len(frames[p].log)].ev = "save"

\* the runs that save: a batch that found an image file, a single image whose
\* describe call returned a text, an upload request that carries files
MustSave(fr) ==
    \/ fr.op = "index" /\ fr.cands # {}
    \/ fr.op = "single" /\ \E i \in Describes(fr.log) : fr.log[i].res # ""
    \/ fr.op = "upload" /\ fr.request # <<>>

\* C8 amended: a run saves the store at most once and does nothing after it;
\* it saves exactly once when it is a batch that found an image file, a
\* single image whose describe call returned a text, or an upload request
\* with files, and not at all otherwise.
C8_SavesAtMostOnceAtTheEnd ==
    \A p \in Procs :
        LET fr == frames[p] IN
        /\ Cardinality(Saves(fr.log)) <= 1
        /\ \A i \in Saves(fr.log) : i = Len(fr.log) /\ fr.pc = "done"
        /\ fr.pc = "done" => (Saves(fr.log) # {} <=> MustSave(fr))

C8_Witness ==
    \E p \in Procs :
        LET fr == frames[p] IN
        /\ fr.op = "index" /\ fr.pc = "done"
        /\ Cardinality(Describes(fr.log)) = 2
        /\ Saves(fr.log) = {3}

\* C9 as stated: once two overlapping upload requests have both finished, the
\* persisted store holds the entry of every item either reported 'success'.
C9_NoLostUpdate ==
    (\A p \in Procs : frames[p].op = "upload" /\ frames[p].pc = "done") =>
        \A p \in Procs : \A i \in 1..Len(frames[p].results) :
            frames[p].results[i].status = "success"
               => Join(UPLOAD_FOLDER, frames[p].results[i].filename) \in DOMAIN StoreOnDisk

\* C10 as stated: the upload handler reports 'skipped' only for an identifier
\* that is a key of the store, so a file whose describe call failed in the
\* previous upload is described again when it is uploaded again.
C10_SkippedOnlyIfIndexed ==
    \A p \in Procs :
        LET fr == frames[p] IN
        fr.op = "upload" =>
            /\ \A i \in 1..Len(fr.results) :
                  fr.results[i].status = "skipped"
                     => Join(UPLOAD_FOLDER, fr.results[i].filename) \in DOMAIN fr.descriptions
            /\ (fr.pc = "done" /\ last.op = "upload")
                  => \A X \in FailedIds(last.log) :
                        (X \notin DOMAIN fr.loaded /\ X[3] \in Range(fr.request))
                           => X \in DescribedIds(fr.log)

\* ------------------------------------------------------- claims: the ranker
\* the key K occurs in the line
Occurs(K, line) ==
    \E i \in 1..(Len(line) - Len(K) + 1) : SubSeq(line, i, i + Len(K) - 1) = K

AllDigits(t) == t # <<>> /\ \A i \in 1..Len(t) : IsDigit(t[i])

\* the line is "N. K:" followed by `right`
Numbered(line, K, right) == line = <<line[1], ".", " ">> \o K \o <<":">> \o right

\* what follows the first ":" of a line "N. K:..."
RightPart(line, K) == SubSeq(line, Len(K) + 5, Len(line))

\* the line is exactly "N. K: digits"
WellFormed(line, K) ==
    /\ Len(line) >= Len(K) + 6
    /\ IsDigit(line[1])
    /\ Numbered(line, K, RightPart(line, K))
    /\ Head(RightPart(line, K)) = " "
    /\ AllDigits(Tail(RightPart(line, K)))

\* the i-th smallest member of a set of numbers
Nth(S, i) == CHOOSE x \in S : Cardinality({y \in S : y < x}) = i - 1

Max(a, b) == IF a >= b THEN a ELSE b

\* C4 as stated: for every integer top_k, zero and negative ones included,
\* the result has at most top_k entries (read in the claim's favour: none at
\* all when top_k is zero or negative).
C4_AtMostTopK == out.called => Len(out.results) <= Max(0, out.top_k)

\* C5: whatever the reply, the search returns a list; every triple in it has
\* a key of the snapshot as identifier and the snapshot's description for
\* that key; only lines that name a key contribute; and the well-formed lines
\* that name a key are all returned (when top_k leaves room), whatever other
\* lines the reply holds.
C5_IdentifierFidelity ==
    out.called =>
        /\ \A i \in 1..Len(out.results) :
              /\ out.results[i][1] \in DOMAIN out.descriptions
              /\ out.results[i][2] = out.descriptions[out.results[i][1]]
        /\ Len(out.results) <=
              Cardinality({j \in 1..Len(out.lines) :
                              \E K \in DOMAIN out.descriptions : Occurs(K, out.lines[j])})
        /\ (out.response.kind = "text" /\ out.top_k >= Len(out.lines)) =>
              \A j \in 1..Len(out.lines) : \A K \in DOMAIN out.descriptions :
                  WellFormed(out.lines[j], K) =>
                      \E i \in 1..Len(out.results) :
                          out.results[i] = <<K, out.descriptions[K],
                                             int(Tail(RightPart(out.lines[j], K)))>>

C5_Witness ==
    /\ out.called
    /\ Len(out.lines) = 3
    /\ \E j \in 1..3 : out.lines[j] = <<"ghost.png", ":", " ", "9", "0">>
    /\ \E j \in 1..3 : out.lines[j] = <<"2", ".", " ", "unknown", ":", " ", "not-a-number">>
    /\ \E j \in 1..3 : WellFormed(out.lines[j], KeyA)
    /\ Len(out.results) = 1
    /\ out.results[1][1] = KeyA

\* C6 as stated: a line "N. K:right" for a key K whose right part, everything
\* after the first ":", holds a digit yields K with the number made of all
\* the digits of that right part.
C6_SplitAtFirstColon ==
    (out.called /\ out.top_k >= 1 /\ Len(out.lines) = 1) =>
        \A K \in DOMAIN out.descriptions :
            LET line == out.lines[1]
                right == RightPart(line, K)
            IN  (/\ Len(line) >= Len(K) + 5
                 /\ IsDigit(line[1])
                 /\ Numbered(line, K, right)
                 /\ \E i \in 1..Len(right) : IsDigit(right[i]))
                => out.results = << <<K, out.descriptions[K],
                                      int(SelectSeq(right, IsDigit))>> >>

\* the lines of the reply that give a result
Surviving == {j \in 1..Len(out.lines) :
                 ParseLine(out.lines[j], out.descriptions).kind = "ok"}

\* C7: the result is a prefix of the surviving lines in the order of the
\* reply: its i-th entry is what the i-th surviving line gives.
C7_ReplyOrder ==
    out.called =>
        /\ Len(out.results) <= Cardinality(Surviving)
        /\ \A i \in 1..Len(out.results) :
              out.results[i] =
                 ParseLine(out.lines[Nth(Surviving, i)], out.descriptions).triple

C7_Witness ==
    /\ out.called
    /\ Cardinality(Surviving) = 3
    /\ Len(out.results) = 2
    /\ out.results[1][3] < out.results[2][3]

====
